---- MODULE Spec2Model ----
(***************************************************************************)
(* Model of data::hash_set::HashSet (src/src/data.rs), the open-addressed  *)
(* hash set with quadratic probing, tombstones and load-factor growth.     *)
(*                                                                         *)
(* The table is the Vec<BucketElement<T>> `data`; bucket i of the code is  *)
(* data[i + 1] here (TLA+ sequences start at 1).  Values of T are small    *)
(* naturals, and `hash` is the 64-bit value DefaultHasher returns for each *)
(* of them: it is fixed for a whole behaviour and chosen arbitrarily in    *)
(* Init, so colliding hashes are covered.                                  *)
(*                                                                         *)
(* Integers.  index_of computes (hash + k * k) % len with k = 1, 2, ...    *)
(* As k * k mod len has period len in k, a probe that has not stopped      *)
(* after len steps can never stop while the arithmetic is exact.  The      *)
(* loop then runs until k * k no longer fits a usize, where a build with   *)
(* overflow checks (the profile `cargo test` uses) panics; a build without *)
(* them goes on probing with wrapped indexes for billions of steps.  The   *)
(* model records a probe that cannot stop within its period as             *)
(* status = "stuck" and lets nothing happen afterwards.  A remainder by a  *)
(* capacity of 0 (a panic in every build) is recorded the same way.        *)
(*                                                                         *)
(* Width.  usize has 64 bits; the model gives it Width bits, enough for    *)
(* k * k never to overflow on its own while k runs through one period of   *)
(* the largest table (as with 64 bits), so that hash + k * k overflows     *)
(* exactly when the hash lies within k * k of the largest usize.  That     *)
(* overflow is an abort too ("attempt to add with overflow") and is        *)
(* recorded as status = "stuck" as well.                                   *)
(*                                                                         *)
(* The other structures of the crate follow, each with a specification of  *)
(* its own over the same variables: data::hash_set2 (SpecChained),         *)
(* data::stack (SpecStack), data::graph (SpecGraph), and from src/lib.rs   *)
(* old_graph (SpecOldGraph) and primes (SpecPrimes).                       *)
(***************************************************************************)
EXTENDS Integers, Sequences, FiniteSets, TLC

\* ---------------------------------------------------------------- bounds
NumItems == 2          \* values of T the callers use: 1 .. NumItems
MaxHash == 1           \* hash values are drawn from 0 .. MaxHash
MaxGrowths == 4        \* reallocations allowed since new()/clear(): capacities 2, 6, 14, 30
Width == 16            \* bits of a usize in the model
MaxBuckets == 13       \* hash_set2: the longest bucket vector a resize may allocate
MaxDepth == 5          \* stack: the most values held at once
NumNodes == 4          \* graph: nodes 0 .. NumNodes - 1
MaxOldNodes == 3       \* old_graph: the most add_node calls
MaxOldEdges == 3       \* old_graph: the most entries of `edges`, and the most failed add_edge calls
MaxN == 60             \* primes: arguments 0 .. MaxN
MaxEdges == 4          \* graph: the most distinct edges of an edge list

Items == 1 .. NumItems
HashVals == 0 .. MaxHash

\* usize::MAX
MaxUsize == 2 ^ Width - 1

\* ------------------------------------------------------- program constants
MAX_LOAD_FACTOR_INV == 2    \* MAX_LOAD_FACTOR = 0.5 = 1 / 2

\* capacity after n reallocations: c -> 2 * c + 2 starting at 0
RECURSIVE CapacityAfter(_)
CapacityAfter(n) == IF n = 0 THEN 0 ELSE 2 * CapacityAfter(n - 1) + 2

MaxCapacity == CapacityAfter(MaxGrowths)

VARIABLES
    data,      \* HashSet.data: the bucket table
    size,      \* HashSet.size: live values
    loaded,    \* HashSet.loaded: live values plus tombstones
    hash,      \* the hash of every value (fixed during a behaviour)
    status,    \* "ok", or "stuck" once a probe loop cannot stop
    last,      \* the last call: [op, item, ret, grew]; it returned iff status = "ok"
    old,       \* data, size, loaded and S as they were when the last call began
    S,         \* the mathematical set the calls describe (updated in lock step)
    net        \* (adds that returned true) - (removes that returned true) since new()/clear()

vars == <<data, size, loaded, hash, status, last, old, S, net>>

\* ---------------------------------------------------------------- buckets
Empty == [tag |-> "Empty"]
Deleted == [tag |-> "Deleted"]
NonEmpty(item) == [tag |-> "NonEmpty", item |-> item]

NoIndex == -1          \* index_of did not return
NoRet == FALSE         \* placeholder for the result of a call that did not return

new == [data |-> <<>>, size |-> 0, loaded |-> 0, status |-> "ok"]

EmptyTable(n) == [i \in 1 .. n |-> Empty]

\* found_index without the equality arm: only an Empty bucket stops the probe
found_index_empty_only(d, item, i) == d[i + 1] = Empty

\* found_index that also stops at a tombstone, so that add reuses it
found_index_reuses_tombstone(d, item, i) ==
    d[i + 1] = Empty \/ d[i + 1] = Deleted \/ d[i + 1] = NonEmpty(item)

\* the closure found_index of index_of
found_index(d, item, i) == d[i + 1] = Empty \/ d[i + 1] = NonEmpty(item)

\* the while loop of index_of, from step k on
RECURSIVE probe(_, _, _)
probe(d, item, k) ==
    IF k > Len(d) \/ hash[item] + k * k > MaxUsize THEN NoIndex
    ELSE LET index == (hash[item] + k * k) % Len(d)
         IN  IF found_index(d, item, index) THEN index ELSE probe(d, item, k + 1)

index_of(d, item) == IF Len(d) = 0 THEN NoIndex ELSE probe(d, item, 1)

\* the load factor test on the live count instead of loaded
must_grow_by_size(st) == st.size * MAX_LOAD_FACTOR_INV >= Len(st.data)

\* the load factor test with > in place of >=
must_grow_strict(st) == st.loaded * MAX_LOAD_FACTOR_INV > Len(st.data)

must_grow(st) == st.loaded * MAX_LOAD_FACTOR_INV >= Len(st.data)

\* add and resize call each other
RECURSIVE add(_, _), replay(_, _, _)

\* the for loop of resize over old_data, from bucket i on
replay(st, old_data, i) ==
    IF i > Len(old_data) \/ st.status # "ok" THEN st
    ELSE IF old_data[i].tag = "NonEmpty"
         THEN LET r == add(st, old_data[i].item)
              IN  replay([data |-> r.data, size |-> r.size, loaded |-> r.loaded,
                          status |-> r.status], old_data, i + 1)
         ELSE replay(st, old_data, i + 1)

\* resize without `self.size = 0`
resize_keeps_size(st, new_size) ==
    replay([data |-> EmptyTable(new_size), size |-> st.size, loaded |-> 0, status |-> "ok"],
           st.data, 1)

\* resize into a table one bucket longer than the old one, whatever new_size
resize_by_one(st, new_size) ==
    replay([data |-> EmptyTable(Len(st.data) + 1), size |-> 0, loaded |-> 0,
            status |-> "ok"],
           st.data, 1)

resize(st, new_size) ==
    replay([data |-> EmptyTable(new_size), size |-> 0, loaded |-> 0, status |-> "ok"],
           st.data, 1)

\* add with `self.loaded += 1` ahead of the early return
add_counts_before_check(st, item) ==
    LET grew == must_grow(st)
        g == IF grew THEN resize(st, Len(st.data) * 2 + 2) ELSE st
        index == IF g.status = "ok" THEN index_of(g.data, item) ELSE NoIndex
    IN  IF index = NoIndex
        THEN [data |-> g.data, size |-> g.size, loaded |-> g.loaded,
              status |-> "stuck", ret |-> NoRet, grew |-> grew]
        ELSE IF g.data[index + 1].tag = "NonEmpty"
        THEN [data |-> g.data, size |-> g.size, loaded |-> g.loaded + 1,
              status |-> "ok", ret |-> FALSE, grew |-> grew]
        ELSE [data |-> [g.data EXCEPT ![index + 1] = NonEmpty(item)],
              size |-> g.size + 1, loaded |-> g.loaded + 1,
              status |-> "ok", ret |-> TRUE, grew |-> grew]

add(st, item) ==
    LET grew == must_grow(st)
        g == IF grew THEN resize(st, Len(st.data) * 2 + 2) ELSE st
        index == IF g.status = "ok" THEN index_of(g.data, item) ELSE NoIndex
    IN  IF index = NoIndex
        THEN [data |-> g.data, size |-> g.size, loaded |-> g.loaded,
              status |-> "stuck", ret |-> NoRet, grew |-> grew]
        ELSE IF g.data[index + 1].tag = "NonEmpty"
        THEN [data |-> g.data, size |-> g.size, loaded |-> g.loaded,
              status |-> "ok", ret |-> FALSE, grew |-> grew]
        ELSE [data |-> [g.data EXCEPT ![index + 1] = NonEmpty(item)],
              size |-> g.size + 1, loaded |-> g.loaded + 1,
              status |-> "ok", ret |-> TRUE, grew |-> grew]

contains(st, item) ==
    IF st.size = 0 THEN [status |-> "ok", ret |-> FALSE]
    ELSE LET index == index_of(st.data, item)
         IN  IF index = NoIndex THEN [status |-> "stuck", ret |-> NoRet]
             ELSE [status |-> "ok", ret |-> st.data[index + 1].tag = "NonEmpty"]

\* remove that gives the allocation back once the last value is gone
remove_shrinks(st, item) ==
    IF st.size = 0
    THEN [data |-> st.data, size |-> st.size, loaded |-> st.loaded,
          status |-> "ok", ret |-> FALSE]
    ELSE LET index == index_of(st.data, item)
         IN  IF index = NoIndex
             THEN [data |-> st.data, size |-> st.size, loaded |-> st.loaded,
                   status |-> "stuck", ret |-> NoRet]
             ELSE IF st.data[index + 1].tag = "NonEmpty"
             THEN IF st.size = 1
                  THEN [data |-> <<>>, size |-> 0, loaded |-> 0,
                        status |-> "ok", ret |-> TRUE]
                  ELSE [data |-> [st.data EXCEPT ![index + 1] = Deleted],
                        size |-> st.size - 1, loaded |-> st.loaded,
                        status |-> "ok", ret |-> TRUE]
             ELSE [data |-> st.data, size |-> st.size, loaded |-> st.loaded,
                   status |-> "ok", ret |-> FALSE]

\* remove with `self.loaded -= 1` in place of `self.size -= 1`
remove_decrements_loaded(st, item) ==
    IF st.size = 0
    THEN [data |-> st.data, size |-> st.size, loaded |-> st.loaded,
          status |-> "ok", ret |-> FALSE]
    ELSE LET index == index_of(st.data, item)
         IN  IF index = NoIndex
             THEN [data |-> st.data, size |-> st.size, loaded |-> st.loaded,
                   status |-> "stuck", ret |-> NoRet]
             ELSE IF st.data[index + 1].tag = "NonEmpty"
             THEN [data |-> [st.data EXCEPT ![index + 1] = Deleted],
                   size |-> st.size, loaded |-> st.loaded - 1,
                   status |-> "ok", ret |-> TRUE]
             ELSE [data |-> st.data, size |-> st.size, loaded |-> st.loaded,
                   status |-> "ok", ret |-> FALSE]

\* remove that writes Empty where it should leave a tombstone
remove_writes_empty(st, item) ==
    IF st.size = 0
    THEN [data |-> st.data, size |-> st.size, loaded |-> st.loaded,
          status |-> "ok", ret |-> FALSE]
    ELSE LET index == index_of(st.data, item)
         IN  IF index = NoIndex
             THEN [data |-> st.data, size |-> st.size, loaded |-> st.loaded,
                   status |-> "stuck", ret |-> NoRet]
             ELSE IF st.data[index + 1].tag = "NonEmpty"
             THEN [data |-> [st.data EXCEPT ![index + 1] = Empty],
                   size |-> st.size - 1, loaded |-> st.loaded,
                   status |-> "ok", ret |-> TRUE]
             ELSE [data |-> st.data, size |-> st.size, loaded |-> st.loaded,
                   status |-> "ok", ret |-> FALSE]

\* remove without `self.size -= 1`
remove_keeps_size(st, item) ==
    IF st.size = 0
    THEN [data |-> st.data, size |-> st.size, loaded |-> st.loaded,
          status |-> "ok", ret |-> FALSE]
    ELSE LET index == index_of(st.data, item)
         IN  IF index = NoIndex
             THEN [data |-> st.data, size |-> st.size, loaded |-> st.loaded,
                   status |-> "stuck", ret |-> NoRet]
             ELSE IF st.data[index + 1].tag = "NonEmpty"
             THEN [data |-> [st.data EXCEPT ![index + 1] = Deleted],
                   size |-> st.size, loaded |-> st.loaded,
                   status |-> "ok", ret |-> TRUE]
             ELSE [data |-> st.data, size |-> st.size, loaded |-> st.loaded,
                   status |-> "ok", ret |-> FALSE]

remove(st, item) ==
    IF st.size = 0
    THEN [data |-> st.data, size |-> st.size, loaded |-> st.loaded,
          status |-> "ok", ret |-> FALSE]
    ELSE LET index == index_of(st.data, item)
         IN  IF index = NoIndex
             THEN [data |-> st.data, size |-> st.size, loaded |-> st.loaded,
                   status |-> "stuck", ret |-> NoRet]
             ELSE IF st.data[index + 1].tag = "NonEmpty"
             THEN [data |-> [st.data EXCEPT ![index + 1] = Deleted],
                   size |-> st.size - 1, loaded |-> st.loaded,
                   status |-> "ok", ret |-> TRUE]
             ELSE [data |-> st.data, size |-> st.size, loaded |-> st.loaded,
                   status |-> "ok", ret |-> FALSE]

\* clear that empties the buckets in place and keeps the allocation
clear_keeps_capacity(st) ==
    [data |-> EmptyTable(Len(st.data)), size |-> 0, loaded |-> 0, status |-> "ok"]

clear(st) == [data |-> <<>>, size |-> 0, loaded |-> 0, status |-> "ok"]

is_empty(st) == st.size = 0

\* ------------------------------------------------------------ the machine
cur == [data |-> data, size |-> size, loaded |-> loaded, status |-> status]

snapshot == [data |-> data, size |-> size, loaded |-> loaded, S |-> S]

Init ==
    /\ data = new.data
    /\ size = new.size
    /\ loaded = new.loaded
    /\ status = new.status
    /\ hash \in [Items -> HashVals]
    /\ last = [op |-> "new", item |-> 0, ret |-> NoRet, grew |-> FALSE]
    /\ old = [data |-> <<>>, size |-> 0, loaded |-> 0, S |-> {}]
    /\ S = {}
    /\ net = 0

Add(item) ==
    /\ status = "ok"
    /\ must_grow(cur) => Len(data) * 2 + 2 <= MaxCapacity
    /\ LET r == add(cur, item)
       IN  /\ data' = r.data
           /\ size' = r.size
           /\ loaded' = r.loaded
           /\ status' = r.status
           /\ last' = [op |-> "add", item |-> item, ret |-> r.ret, grew |-> r.grew]
           /\ net' = IF r.ret THEN net + 1 ELSE net
    /\ S' = S \cup {item}
    /\ old' = snapshot
    /\ UNCHANGED hash

Remove(item) ==
    /\ status = "ok"
    /\ LET r == remove(cur, item)
       IN  /\ data' = r.data
           /\ size' = r.size
           /\ loaded' = r.loaded
           /\ status' = r.status
           /\ last' = [op |-> "remove", item |-> item, ret |-> r.ret, grew |-> FALSE]
           /\ net' = IF r.ret THEN net - 1 ELSE net
    /\ S' = S \ {item}
    /\ old' = snapshot
    /\ UNCHANGED hash

Contains(item) ==
    /\ status = "ok"
    /\ LET r == contains(cur, item)
       IN  /\ status' = r.status
           /\ last' = [op |-> "contains", item |-> item, ret |-> r.ret, grew |-> FALSE]
    /\ old' = snapshot
    /\ UNCHANGED <<data, size, loaded, hash, S, net>>

Clear ==
    /\ status = "ok"
    /\ LET r == clear(cur)
       IN  /\ data' = r.data
           /\ size' = r.size
           /\ loaded' = r.loaded
           /\ status' = r.status
    /\ last' = [op |-> "clear", item |-> 0, ret |-> NoRet, grew |-> FALSE]
    /\ S' = {}
    /\ net' = 0
    /\ old' = snapshot
    /\ UNCHANGED hash

Next ==
    \/ \E item \in DOMAIN hash : Add(item)
    \/ \E item \in DOMAIN hash : Remove(item)
    \/ \E item \in DOMAIN hash : Contains(item)
    \/ Clear

Spec == Init /\ [][Next]_vars

\* --------------------------------------------- hashes near usize::MAX
\* The same calls on values whose hash is small, the largest usize, or three
\* below it (so that step k = 1 fits and step k = 2 does not).
WideHashes == {0, MaxUsize - 3, MaxUsize}

InitWide ==
    /\ data = new.data
    /\ size = new.size
    /\ loaded = new.loaded
    /\ status = new.status
    /\ hash \in [Items -> WideHashes]
    /\ last = [op |-> "new", item |-> 0, ret |-> NoRet, grew |-> FALSE]
    /\ old = [data |-> <<>>, size |-> 0, loaded |-> 0, S |-> {}]
    /\ S = {}
    /\ net = 0

SpecWide == InitWide /\ [][Next]_vars

\* ------------------------------------- hash_set2: the chained hash set
\* data::hash_set2::HashSet: `data` is a Vec<Vec<T>> (a sequence of buckets,
\* each a sequence of values) and `size` its counter.  The specification
\* SpecChained keeps these two in the variables data and size; loaded is not a
\* field of this set and stays 0, and no call of it loops, so status stays "ok".
MAX_LOAD_FACTOR2 == 1

new2 == [data |-> <<>>, size |-> 0]

bucket_of(d, item) == hash[item] % Len(d)

\* the values of a bucket vector in the order `for v in old_data { for item in v`
\* meets them
RECURSIVE Flatten(_)
Flatten(d) == IF d = <<>> THEN <<>> ELSE Head(d) \o Flatten(Tail(d))

Stored(d) == {Flatten(d)[i] : i \in DOMAIN Flatten(d)}

contains2(st, item) ==
    IF st.size = 0 THEN FALSE
    ELSE LET index == bucket_of(st.data, item)
         IN  \E i \in DOMAIN st.data[index + 1] : st.data[index + 1][i] = item

must_grow2(st) == st.size + 1 >= Len(st.data) * MAX_LOAD_FACTOR2

RECURSIVE add2(_, _), replay2(_, _, _)

\* the two for loops of resize, from the i-th stored value on
replay2(st, items, i) ==
    IF i > Len(items) THEN st
    ELSE LET r == add2(st, items[i])
         IN  replay2([data |-> r.data, size |-> r.size], items, i + 1)

\* resize: new_data replaces data, size is left as it is
resize2(st, new_length) ==
    replay2([data |-> [b \in 1 .. new_length |-> <<>>], size |-> st.size],
            Flatten(st.data), 1)

add2(st, item) ==
    IF contains2(st, item)
    THEN [data |-> st.data, size |-> st.size, ret |-> FALSE]
    ELSE LET g == IF must_grow2(st) THEN resize2(st, st.size * 2 + 1) ELSE st
             index == bucket_of(g.data, item)
         IN  [data |-> [g.data EXCEPT ![index + 1] = Append(@, item)],
              size |-> g.size + 1, ret |-> TRUE]

\* Vec::remove(i)
RemoveAt(v, i) == SubSeq(v, 1, i - 1) \o SubSeq(v, i + 1, Len(v))

remove2(st, item) ==
    IF st.size = 0
    THEN [data |-> st.data, size |-> st.size, ret |-> FALSE]
    ELSE LET index == bucket_of(st.data, item)
             bucket == st.data[index + 1]
             found == {i \in DOMAIN bucket : bucket[i] = item}
         IN  IF found # {}
             THEN LET i == CHOOSE j \in found : \A m \in found : j <= m
                  IN  [data |-> [st.data EXCEPT ![index + 1] = RemoveAt(bucket, i)],
                       size |-> st.size - 1, ret |-> TRUE]
             ELSE [data |-> st.data, size |-> st.size, ret |-> FALSE]

clear2(st) == [data |-> <<>>, size |-> 0]

is_empty2(st) == st.size = 0

cur2 == [data |-> data, size |-> size]

InitChained ==
    /\ data = new2.data
    /\ size = new2.size
    /\ loaded = 0
    /\ status = "ok"
    /\ hash \in [Items -> HashVals]
    /\ last = [op |-> "new", item |-> 0, ret |-> NoRet, grew |-> FALSE]
    /\ old = [data |-> <<>>, size |-> 0, loaded |-> 0, S |-> {}]
    /\ S = {}
    /\ net = 0

Add2(item) ==
    /\ (~contains2(cur2, item) /\ must_grow2(cur2)) => size * 2 + 1 <= MaxBuckets
    /\ LET r == add2(cur2, item)
       IN  /\ data' = r.data
           /\ size' = r.size
           /\ last' = [op |-> "add", item |-> item, ret |-> r.ret,
                       grew |-> Len(r.data) # Len(data)]
           /\ net' = IF r.ret THEN net + 1 ELSE net
    /\ S' = S \cup {item}
    /\ old' = snapshot
    /\ UNCHANGED <<loaded, status, hash>>

Remove2(item) ==
    /\ LET r == remove2(cur2, item)
       IN  /\ data' = r.data
           /\ size' = r.size
           /\ last' = [op |-> "remove", item |-> item, ret |-> r.ret, grew |-> FALSE]
           /\ net' = IF r.ret THEN net - 1 ELSE net
    /\ S' = S \ {item}
    /\ old' = snapshot
    /\ UNCHANGED <<loaded, status, hash>>

Contains2(item) ==
    /\ last' = [op |-> "contains", item |-> item, ret |-> contains2(cur2, item),
                grew |-> FALSE]
    /\ old' = snapshot
    /\ UNCHANGED <<data, size, loaded, status, hash, S, net>>

Clear2 ==
    /\ LET r == clear2(cur2)
       IN  /\ data' = r.data
           /\ size' = r.size
    /\ last' = [op |-> "clear", item |-> 0, ret |-> NoRet, grew |-> FALSE]
    /\ S' = {}
    /\ net' = 0
    /\ old' = snapshot
    /\ UNCHANGED <<loaded, status, hash>>

NextChained ==
    \/ \E item \in DOMAIN hash : Add2(item)
    \/ \E item \in DOMAIN hash : Remove2(item)
    \/ \E item \in DOMAIN hash : Contains2(item)
    \/ Clear2

SpecChained == InitChained /\ [][NextChained]_vars

\* ------------------------------------------------------ stack::Stack
\* data::stack::Stack<T>: `data` is the boxed slice and `length` the number of
\* values held.  The specification SpecStack keeps the slice in the variable
\* data and length in the variable size; S is the sequence of the values pushed
\* and not yet popped, oldest first, and net counts pushes minus the pops that
\* returned a value.  pop and peek return Option<&T>: None is <<>> and Some(&v)
\* is <<v>>.  T is the integers, whose default is 0.
Default == 0

None == <<>>
Some(v) == <<v>>

stack_new == [data |-> <<>>, length |-> 0]

stack_is_empty(stk) == stk.length = 0

stack_size(stk) == stk.length

peek(stk) ==
    IF stack_is_empty(stk) THEN None ELSE Some(stk.data[(stk.length - 1) + 1])

\* pop that hands out the top value and leaves length as it was
pop_keeps_length(stk) ==
    IF stk.length = 0
    THEN [data |-> stk.data, length |-> stk.length, ret |-> None]
    ELSE [data |-> stk.data, length |-> stk.length,
          ret |-> Some(stk.data[(stk.length - 1) + 1])]

pop(stk) ==
    IF stk.length = 0
    THEN [data |-> stk.data, length |-> stk.length, ret |-> None]
    ELSE LET length == stk.length - 1
         IN  [data |-> stk.data, length |-> length, ret |-> Some(stk.data[length + 1])]

\* a growth that allocates a fresh slice instead of extending the old one
resize_with_fresh(d, new_length) == [i \in 1 .. new_length |-> Default]

\* Vec::resize_with(new_length, T::default) on the old values
resize_with(d, new_length) ==
    IF new_length <= Len(d) THEN SubSeq(d, 1, new_length)
    ELSE d \o [i \in 1 .. (new_length - Len(d)) |-> Default]

push(stk, item) ==
    LET grown == IF stk.length = Len(stk.data)
                 THEN resize_with(stk.data, ((stk.length * 3) \div 2) + 1)
                 ELSE stk.data
    IN  [data |-> [grown EXCEPT ![stk.length + 1] = item], length |-> stk.length + 1]

stk_cur == [data |-> data, length |-> size]

InitStack ==
    /\ data = stack_new.data
    /\ size = stack_new.length
    /\ loaded = 0
    /\ status = "ok"
    /\ hash = [i \in Items |-> 0]
    /\ last = [op |-> "new", item |-> 0, ret |-> None, grew |-> FALSE]
    /\ old = [data |-> <<>>, size |-> 0, loaded |-> 0, S |-> <<>>]
    /\ S = <<>>
    /\ net = 0

Push(item) ==
    /\ size < MaxDepth
    /\ LET r == push(stk_cur, item)
       IN  /\ data' = r.data
           /\ size' = r.length
           /\ last' = [op |-> "push", item |-> item, ret |-> None,
                       grew |-> Len(r.data) # Len(data)]
    /\ S' = Append(S, item)
    /\ net' = net + 1
    /\ old' = snapshot
    /\ UNCHANGED <<loaded, status, hash>>

Pop ==
    /\ LET r == pop(stk_cur)
       IN  /\ data' = r.data
           /\ size' = r.length
           /\ last' = [op |-> "pop", item |-> 0, ret |-> r.ret, grew |-> FALSE]
           /\ net' = IF r.ret # None THEN net - 1 ELSE net
    /\ S' = IF S = <<>> THEN S ELSE SubSeq(S, 1, Len(S) - 1)
    /\ old' = snapshot
    /\ UNCHANGED <<loaded, status, hash>>

Peek ==
    /\ last' = [op |-> "peek", item |-> 0, ret |-> peek(stk_cur), grew |-> FALSE]
    /\ old' = snapshot
    /\ UNCHANGED <<data, size, loaded, status, hash, S, net>>

NextStack ==
    \/ \E item \in Items : Push(item)
    \/ Pop
    \/ Peek

SpecStack == InitStack /\ [][NextStack]_vars

\* ------------------------------------------------------ graph::Graph
\* data::graph::Graph<T>: `edges` is a Vec<BTreeMap<NodeLabel, EdgeWeight>>,
\* one map per node, whose keys are the heads of the node's outgoing edges.
\* The searches never read a weight or a node's value, so the model keeps the
\* key set of every map: node i of the code has the set data[i + 1], and size
\* is nodes.len().  Edge lists name existing nodes only.  bfs and dfs are
\* loops over local collections; they are operators here, written loop
\* iteration by loop iteration, and return [status, ret].  A loop that has
\* run more iterations than any terminating run can take (see MaxPops,
\* MaxTrace) is recorded as status = "stuck", as for the probe of the hash
\* set.
Nodes == 0 .. NumNodes - 1

\* BTreeMap::iter(): the keys in ascending order
RECURSIVE iter(_)
iter(keys) ==
    IF keys = {} THEN <<>>
    ELSE LET least == CHOOSE x \in keys : \A y \in keys : x <= y
         IN  <<least>> \o iter(keys \ {least})

\* Iterator::rev()
RECURSIVE rev(_)
rev(seq) == IF seq = <<>> THEN <<>> ELSE Append(rev(Tail(seq)), Head(seq))

\* Graph::new_unweighted(vec![0; n], edge_list)
new_unweighted(n, edge_list) ==
    [head_id \in 1 .. n |-> {e[2] : e \in {x \in edge_list : x[1] = head_id - 1}}]

\* HashMap::insert
insert(map, key, value) ==
    [x \in DOMAIN map \cup {key} |-> IF x = key THEN value ELSE map[x]]

\* a pop that expands a new node is the only one that can follow a pushing
\* iteration, so a terminating search pops at most this many times
MaxPops == NumNodes * NumNodes + 1
\* a parent chain without a repeated node has at most NumNodes entries
MaxTrace == NumNodes

RECURSIVE trace_from(_, _, _)
trace_from(parents, trace, fuel) ==
    LET current == trace[Len(trace)]
    IN  IF current \notin DOMAIN parents THEN trace
        ELSE IF fuel = 0 THEN <<>>
        ELSE trace_from(parents, Append(trace, parents[current]), fuel - 1)

\* backtrace: [status, ret] with ret the reversed trace
backtrace(node, parents) ==
    LET trace == trace_from(parents, <<node>>, MaxTrace)
    IN  IF trace = <<>> THEN [status |-> "stuck", ret |-> None]
        ELSE [status |-> "ok", ret |-> Some(rev(trace))]

\* the body of the for loop of bfs without its test of `expanded`
bfs_visit_unchecked(st, node, edge_node) ==
    [queue |-> Append(st.queue, edge_node),
     parents |-> insert(st.parents, edge_node, node),
     expanded |-> st.expanded \cup {edge_node}]

\* the body of the for loop of bfs
bfs_visit(st, node, edge_node) ==
    IF edge_node \notin st.expanded
    THEN [queue |-> Append(st.queue, edge_node),
          parents |-> insert(st.parents, edge_node, node),
          expanded |-> st.expanded \cup {edge_node}]
    ELSE st

RECURSIVE bfs_for(_, _, _)
bfs_for(st, node, es) ==
    IF es = <<>> THEN st ELSE bfs_for(bfs_visit(st, node, Head(es)), node, Tail(es))

RECURSIVE bfs_while(_, _, _, _)
bfs_while(edges, destination_id, st, fuel) ==
    IF st.queue = <<>> THEN [status |-> "ok", ret |-> None]
    ELSE IF fuel = 0 THEN [status |-> "stuck", ret |-> None]
    ELSE LET node == Head(st.queue)
             popped == [st EXCEPT !.queue = Tail(st.queue)]
         IN  IF node = destination_id THEN backtrace(node, st.parents)
             ELSE bfs_while(edges, destination_id,
                            bfs_for(popped, node, iter(edges[node + 1])), fuel - 1)

bfs(edges, source_id, destination_id) ==
    bfs_while(edges, destination_id,
              [queue |-> <<source_id>>, parents |-> <<>>, expanded |-> {source_id}],
              MaxPops)

\* the body of the for loop of dfs without its test of `expanded`
dfs_visit_unchecked(st, node, edge) ==
    [stack |-> Append(st.stack, edge),
     parents |-> insert(st.parents, edge, node),
     expanded |-> st.expanded]

\* the body of the for loop of dfs
dfs_visit(st, node, edge) ==
    IF edge \notin st.expanded
    THEN [stack |-> Append(st.stack, edge),
          parents |-> insert(st.parents, edge, node),
          expanded |-> st.expanded]
    ELSE st

RECURSIVE dfs_for(_, _, _)
dfs_for(st, node, es) ==
    IF es = <<>> THEN st ELSE dfs_for(dfs_visit(st, node, Head(es)), node, Tail(es))

RECURSIVE dfs_while(_, _, _, _)
dfs_while(edges, destination_id, st, fuel) ==
    IF st.stack = <<>> THEN [status |-> "ok", ret |-> None]
    ELSE IF fuel = 0 THEN [status |-> "stuck", ret |-> None]
    ELSE LET node == st.stack[Len(st.stack)]
             popped == [st EXCEPT !.stack = SubSeq(st.stack, 1, Len(st.stack) - 1),
                                  !.expanded = st.expanded \cup {node}]
         IN  IF node = destination_id THEN backtrace(node, st.parents)
             ELSE dfs_while(edges, destination_id,
                            dfs_for(popped, node, rev(iter(edges[node + 1]))), fuel - 1)

dfs(edges, source_id, destination_id) ==
    dfs_while(edges, destination_id,
              [stack |-> <<source_id>>, parents |-> <<>>, expanded |-> {}],
              MaxPops)

EdgeLists == {el \in SUBSET (Nodes \X Nodes) : Cardinality(el) <= MaxEdges}

InitGraph ==
    /\ \E edge_list \in EdgeLists : data = new_unweighted(NumNodes, edge_list)
    /\ size = NumNodes
    /\ loaded = 0
    /\ status = "ok"
    /\ hash = [i \in Items |-> 0]
    /\ last = [op |-> "new", item |-> <<0, 0>>, ret |-> None, grew |-> FALSE]
    /\ old = [data |-> <<>>, size |-> 0, loaded |-> 0, S |-> {}]
    /\ S = {}
    /\ net = 0

Bfs(source_id, destination_id) ==
    /\ status = "ok"
    /\ LET r == bfs(data, source_id, destination_id)
       IN  /\ status' = r.status
           /\ last' = [op |-> "bfs", item |-> <<source_id, destination_id>>,
                       ret |-> r.ret, grew |-> FALSE]
    /\ old' = snapshot
    /\ UNCHANGED <<data, size, loaded, hash, S, net>>

Dfs(source_id, destination_id) ==
    /\ status = "ok"
    /\ LET r == dfs(data, source_id, destination_id)
       IN  /\ status' = r.status
           /\ last' = [op |-> "dfs", item |-> <<source_id, destination_id>>,
                       ret |-> r.ret, grew |-> FALSE]
    /\ old' = snapshot
    /\ UNCHANGED <<data, size, loaded, hash, S, net>>

NextGraph ==
    \/ \E source_id \in Nodes, destination_id \in Nodes : Bfs(source_id, destination_id)
    \/ \E source_id \in Nodes, destination_id \in Nodes : Dfs(source_id, destination_id)

SpecGraph == InitGraph /\ [][NextGraph]_vars

\* the nodes reachable from node s along at most k edges
RECURSIVE Within(_, _, _)
Within(edges, s, k) ==
    IF k = 0 THEN {s}
    ELSE LET near == Within(edges, s, k - 1)
         IN  near \cup UNION {edges[n + 1] : n \in near}

Reachable(edges, s, d) == d \in Within(edges, s, Len(edges))

\* the number of edges of a shortest path from s to a reachable d
Distance(edges, s, d) ==
    CHOOSE k \in 0 .. Len(edges) :
        /\ d \in Within(edges, s, k)
        /\ \A j \in 0 .. k - 1 : d \notin Within(edges, s, j)

\* path leads from s to d along edges
IsPath(edges, path, s, d) ==
    /\ path # <<>>
    /\ path[1] = s
    /\ path[Len(path)] = d
    /\ \A i \in 1 .. Len(path) - 1 : path[i + 1] \in edges[path[i] + 1]

\* -------------------------------------------------- old_graph::Graph
\* old_graph::Graph<T> (src/src/lib.rs): `nodes`, `edges` and
\* `reversed_edges` are vectors with one entry per node; an entry of `edges`
\* is the Vec of the targets of the node's edges in the order they were
\* added.  The specification SpecOldGraph keeps the struct in the variable
\* data as [nodes, edges, reversed_edges], nodes being nodes.len() (the
\* values of the nodes are never read); entry i of a vector of the code is
\* entry i + 1 here.  S is the set of the <<source, target>> pairs add_edge
\* has accepted and net the number of add_edge calls that returned Err.
\* Option::unwrap on None is a panic: status = "stuck".
old_graph_new == [nodes |-> 0, edges |-> <<>>, reversed_edges |-> <<>>]

add_node(g) ==
    [nodes |-> g.nodes + 1,
     edges |-> Append(g.edges, <<>>),
     reversed_edges |-> Append(g.reversed_edges, <<>>),
     ret |-> g.nodes]

add_edge(g, source, target) ==
    IF source + 1 \notin DOMAIN g.edges
    THEN [nodes |-> g.nodes, edges |-> g.edges,
          reversed_edges |-> g.reversed_edges, ret |-> "Err"]
    ELSE LET pushed == [g.edges EXCEPT ![source + 1] = Append(@, target)]
         IN  IF target + 1 \notin DOMAIN g.reversed_edges
             THEN [nodes |-> g.nodes, edges |-> pushed,
                   reversed_edges |-> g.reversed_edges, ret |-> "Err"]
             ELSE [nodes |-> g.nodes, edges |-> pushed,
                   reversed_edges |->
                       [g.reversed_edges EXCEPT ![target + 1] = Append(@, source)],
                   ret |-> "Ok"]

RECURSIVE SumLen(_)
SumLen(v) == IF v = <<>> THEN 0 ELSE Len(Head(v)) + SumLen(Tail(v))

num_edges(g) == SumLen(g.edges)

\* every turn of the two loops adds a new index to `visited`, and an index
\* that is not a node ends the loop at the next unwrap
MaxTurns(g) == g.nodes + 2

\* the loop of to_head: [status, ret] with ret None or Some(node)
RECURSIVE to_head_loop(_, _, _, _)
to_head_loop(g, target_node, visited, fuel) ==
    IF fuel = 0 \/ target_node + 1 \notin DOMAIN g.reversed_edges
    THEN [status |-> "stuck", ret |-> None]
    ELSE LET current_edges == g.reversed_edges[target_node + 1]
         IN  IF current_edges = <<>> THEN [status |-> "ok", ret |-> Some(target_node)]
             ELSE IF current_edges[1] \in visited THEN [status |-> "ok", ret |-> None]
             ELSE to_head_loop(g, current_edges[1], visited \cup {current_edges[1]},
                               fuel - 1)

to_head(g) == to_head_loop(g, 0, {0}, MaxTurns(g))

\* the loop of is_connected: [status, ret] with ret a boolean
RECURSIVE is_connected_loop(_, _, _, _)
is_connected_loop(g, target_node, visited, fuel) ==
    IF fuel = 0 \/ target_node + 1 \notin DOMAIN g.edges
    THEN [status |-> "stuck", ret |-> FALSE]
    ELSE LET current_edge == g.edges[target_node + 1]
         IN  IF current_edge = <<>>
             THEN [status |-> "ok", ret |-> Cardinality(visited) = g.nodes]
             ELSE IF current_edge[1] \in visited THEN [status |-> "ok", ret |-> FALSE]
             ELSE is_connected_loop(g, current_edge[1], visited \cup {current_edge[1]},
                                    fuel - 1)

is_connected(g) ==
    LET head == to_head(g)
    IN  IF head.status # "ok" THEN [status |-> head.status, ret |-> FALSE]
        ELSE IF head.ret = None THEN [status |-> "ok", ret |-> FALSE]
        ELSE is_connected_loop(g, 0, {0}, MaxTurns(g))

is_tree(g) ==
    IF g.nodes = 0 THEN [status |-> "ok", ret |-> FALSE]
    ELSE IF num_edges(g) # g.nodes - 1 THEN [status |-> "ok", ret |-> FALSE]
    ELSE is_connected(g)

StructOf(r) == [nodes |-> r.nodes, edges |-> r.edges, reversed_edges |-> r.reversed_edges]

\* the node indexes callers pass: every index a graph can have, and one beyond
Indexes == 0 .. MaxOldNodes

InitOldGraph ==
    /\ data = old_graph_new
    /\ size = 0
    /\ loaded = 0
    /\ status = "ok"
    /\ hash = [i \in Items |-> 0]
    /\ last = [op |-> "new", item |-> <<0, 0>>, ret |-> FALSE, grew |-> FALSE]
    /\ old = [data |-> old_graph_new, size |-> 0, loaded |-> 0, S |-> {}]
    /\ S = {}
    /\ net = 0

AddNode ==
    /\ status = "ok"
    /\ data.nodes < MaxOldNodes
    /\ LET r == add_node(data)
       IN  /\ data' = StructOf(r)
           /\ last' = [op |-> "add_node", item |-> <<0, 0>>, ret |-> r.ret, grew |-> FALSE]
    /\ old' = snapshot
    /\ UNCHANGED <<size, loaded, status, hash, S, net>>

AddEdge(source, target) ==
    /\ status = "ok"
    /\ num_edges(data) < MaxOldEdges
    /\ net < MaxOldEdges
    /\ LET r == add_edge(data, source, target)
       IN  /\ data' = StructOf(r)
           /\ last' = [op |-> "add_edge", item |-> <<source, target>>, ret |-> r.ret,
                       grew |-> FALSE]
           /\ S' = IF r.ret = "Ok" THEN S \cup {<<source, target>>} ELSE S
           /\ net' = IF r.ret = "Err" THEN net + 1 ELSE net
    /\ old' = snapshot
    /\ UNCHANGED <<size, loaded, status, hash>>

IsTree ==
    /\ status = "ok"
    /\ LET r == is_tree(data)
       IN  /\ status' = r.status
           /\ last' = [op |-> "is_tree", item |-> <<0, 0>>, ret |-> r.ret, grew |-> FALSE]
    /\ old' = snapshot
    /\ UNCHANGED <<data, size, loaded, hash, S, net>>

NextOldGraph ==
    \/ AddNode
    \/ \E source \in Indexes, target \in Indexes : AddEdge(source, target)
    \/ IsTree

SpecOldGraph == InitOldGraph /\ [][NextOldGraph]_vars

\* the targets of every node of g, as sets
Targets(g) == [i \in DOMAIN g.edges |-> {g.edges[i][j] : j \in DOMAIN g.edges[i]}]

\* g is non-empty, has n - 1 edges for its n nodes, and every node can be
\* reached from one root along edges
Tree(g) ==
    /\ g.nodes > 0
    /\ num_edges(g) = g.nodes - 1
    /\ \E root \in 0 .. g.nodes - 1 :
          \A n \in 0 .. g.nodes - 1 : n \in Within(Targets(g), root, g.nodes)

\* -------------------------------------------------------------- primes
\* primes (src/src/lib.rs): three functions from n to the number of primes
\* below n.  A Vec<bool> is a sequence of booleans, entry i of the code being
\* entry i + 1 here.  The arguments are small enough for p * p to stay far
\* inside a usize.  The specification SpecPrimes calls the functions with
\* every argument up to MaxN and records call and result in `last`.
RECURSIVE trial_division_for(_, _, _)
trial_division_for(primes, i, n) ==
    IF i >= n THEN primes
    ELSE IF ~(\E k \in DOMAIN primes : i % primes[k] = 0)
         THEN trial_division_for(Append(primes, i), i + 1, n)
         ELSE trial_division_for(primes, i + 1, n)

trial_division(n) == Len(trial_division_for(<<>>, 2, n))

count(values) == Cardinality({k \in DOMAIN values : values[k]})

\* the while loop of the odds sieve stepping by p instead of 2 * p
RECURSIVE odds_while_every_multiple(_, _, _, _)
odds_while_every_multiple(values, i, p, n) ==
    IF i < n
    THEN odds_while_every_multiple([values EXCEPT ![((i - 3) \div 2) + 1] = FALSE],
                                   i + p, p, n)
    ELSE values

RECURSIVE odds_while(_, _, _, _)
odds_while(values, i, p, n) ==
    IF i < n
    THEN odds_while([values EXCEPT ![((i - 3) \div 2) + 1] = FALSE], i + 2 * p, p, n)
    ELSE values

RECURSIVE odds_for(_, _, _)
odds_for(values, index, n) ==
    IF index >= Len(values) THEN values
    ELSE IF ~values[index + 1] THEN odds_for(values, index + 1, n)
    ELSE LET p == 3 + 2 * index
             i == p * p
         IN  IF i > n THEN values
             ELSE odds_for(odds_while(values, i, p, n), index + 1, n)

\* (3..n).step_by(2).map(|_i| true).collect()
odds_values(n) == [k \in 1 .. (IF n <= 3 THEN 0 ELSE (n - 2) \div 2) |-> TRUE]

sieve_of_eratosthenes_odds(n) ==
    IF n <= 2 THEN 0 ELSE count(odds_for(odds_values(n), 0, n)) + 1

RECURSIVE naive_while(_, _, _, _)
naive_while(values, i, p, n) ==
    IF i < n THEN naive_while([values EXCEPT ![i + 1] = FALSE], i + p, p, n)
    ELSE values

RECURSIVE naive_for(_, _, _)
naive_for(values, p, n) ==
    IF p >= n THEN values
    ELSE IF ~values[p + 1] THEN naive_for(values, p + 1, n)
    ELSE LET i == p * p
         IN  IF i > n THEN values
             ELSE naive_for(naive_while(values, i, p, n), p + 1, n)

sieve_of_eratosthenes_naive(n) ==
    IF n <= 2 THEN 0
    ELSE count(naive_for([k \in 1 .. n |-> k > 2], 0, n))

InitPrimes ==
    /\ data = <<>>
    /\ size = 0
    /\ loaded = 0
    /\ status = "ok"
    /\ hash = [i \in Items |-> 0]
    /\ last = [op |-> "new", item |-> 0, ret |-> 0, grew |-> FALSE]
    /\ old = [data |-> <<>>, size |-> 0, loaded |-> 0, S |-> {}]
    /\ S = {}
    /\ net = 0

TrialDivision(n) ==
    /\ last' = [op |-> "trial_division", item |-> n, ret |-> trial_division(n),
                grew |-> FALSE]
    /\ UNCHANGED <<data, size, loaded, status, hash, old, S, net>>

SieveOdds(n) ==
    /\ last' = [op |-> "sieve_of_eratosthenes_odds", item |-> n,
                ret |-> sieve_of_eratosthenes_odds(n), grew |-> FALSE]
    /\ UNCHANGED <<data, size, loaded, status, hash, old, S, net>>

SieveNaive(n) ==
    /\ last' = [op |-> "sieve_of_eratosthenes_naive", item |-> n,
                ret |-> sieve_of_eratosthenes_naive(n), grew |-> FALSE]
    /\ UNCHANGED <<data, size, loaded, status, hash, old, S, net>>

NextPrimes ==
    \/ \E n \in 0 .. MaxN : TrialDivision(n)
    \/ \E n \in 0 .. MaxN : SieveOdds(n)
    \/ \E n \in 0 .. MaxN : SieveNaive(n)

SpecPrimes == InitPrimes /\ [][NextPrimes]_vars

\* the number of primes strictly less than n
PrimesBelow(n) ==
    Cardinality({q \in 2 .. n - 1 : \A d \in 2 .. q - 1 : q % d # 0})

\* ------------------------------------------- the insert-only workload
\* test_benchmarks_tolerable's first loop: the values 1, 2, 3, ... are added in
\* turn and none is removed.  The hash functions tried: one whose first twelve
\* values land, at capacity 30, on the twelve buckets the thirteenth value
\* probes ((h + k * k) % 30 takes the 12 values h + {0,1,4,6,9,10,15,16,19,21,
\* 24,25}); one that gives every value the same hash; and the identity.
PathHashes == <<0, 3, 8, 15, 24, 5, 18, 20, 9, 23, 14, 29, 30>>

InsertHashes ==
    { [i \in DOMAIN PathHashes |-> PathHashes[i]],
      [i \in DOMAIN PathHashes |-> 0],
      [i \in DOMAIN PathHashes |-> i] }

InitInsert ==
    /\ data = new.data
    /\ size = new.size
    /\ loaded = new.loaded
    /\ status = new.status
    /\ hash \in InsertHashes
    /\ last = [op |-> "new", item |-> 0, ret |-> NoRet, grew |-> FALSE]
    /\ old = [data |-> <<>>, size |-> 0, loaded |-> 0, S |-> {}]
    /\ S = {}
    /\ net = 0

NextInsert ==
    \/ \E item \in DOMAIN hash : item = Cardinality(S) + 1 /\ Add(item)
    \/ \E item \in DOMAIN hash : Contains(item)

SpecInsert == InitInsert /\ [][NextInsert]_vars

\* ------------------------------------------------------------- vocabulary
\* the values held in NonEmpty buckets
Live(d) == {d[i].item : i \in {j \in DOMAIN d : d[j].tag = "NonEmpty"}}

\* the state part of the record an operation returns
StateOf(r) == [data |-> r.data, size |-> r.size, loaded |-> r.loaded, status |-> r.status]

Returned(r) == r.status = "ok"

\* the bucket step k of the probe for item looks at in table d
Probed(d, item, k) == d[((hash[item] + k * k) % Len(d)) + 1]

\* the states resize passes through: the set as it is after the for loop has
\* handled the first j buckets of old_data, for every j
ResizeStates(st, new_size) ==
    {resize([st EXCEPT !.data = SubSeq(st.data, 1, j)], new_size) : j \in 0 .. Len(st.data)}

\* the states the last call passed through and ended in
Passed ==
    {cur} \cup (IF last.op = "add" /\ last.grew
                THEN ResizeStates(old, Len(old.data) * 2 + 2)
                ELSE {})

\* the number of buckets of table d with the given tag
Buckets(d, tag) == Cardinality({i \in DOMAIN d : d[i].tag = tag})

\* ------------------------------------------------------------------ claims

\* C1: the set behaves as a mathematical set S updated in lock step: every call
\* returns, add(x) returns true exactly when x was not in S, remove(x) returns
\* true exactly when x was in S, contains(x) returns true exactly when x is in
\* S, size() = |S| and is_empty() = (S = {}), whatever the hash function.
C1_BehavesAsSet ==
    /\ status = "ok"
    /\ last.op = "add" => last.ret = (last.item \notin old.S)
    /\ last.op = "remove" => last.ret = (last.item \in old.S)
    /\ last.op = "contains" => last.ret = (last.item \in old.S)
    /\ size = Cardinality(S)
    /\ is_empty(cur) = (S = {})

\* C2: in every reachable state and for every item the quadratic probe that
\* add, contains and remove would run from that state stops at an Empty bucket
\* or at a NonEmpty bucket holding an equal value.
C2_ProbeTerminates ==
    status = "ok" =>
        \A item \in DOMAIN hash :
            /\ Returned(add(cur, item))
            /\ Returned(contains(cur, item))
            /\ Returned(remove(cur, item))

\* C3 (as stated): add(x) on a set that already contains x returns false and
\* leaves the table, the capacity, size and loaded as they were, also when
\* loaded >= capacity * 0.5.
C3_AddPresentNoMutation ==
    (last.op = "add" /\ last.item \in Live(old.data)) =>
        /\ status = "ok"
        /\ last.ret = FALSE
        /\ data = old.data
        /\ size = old.size
        /\ loaded = old.loaded

\* C3 (amended): add(x) on a set that already contains x, called while
\* loaded < capacity * 0.5, returns false and mutates nothing; called while
\* loaded >= capacity * 0.5 it first reallocates the table, whose capacity
\* becomes 2 * capacity + 2 (so the table is not left as it was).
C3_AddPresentNoMutationUnlessGrown ==
    (last.op = "add" /\ last.item \in Live(old.data)) =>
        IF old.loaded * MAX_LOAD_FACTOR_INV >= Len(old.data)
        THEN Len(data) = Len(old.data) * 2 + 2
        ELSE /\ status = "ok"
             /\ last.ret = FALSE
             /\ data = old.data
             /\ size = old.size
             /\ loaded = old.loaded

\* an add of a present value that did not grow, on a table that holds a tombstone
C3_Witness ==
    /\ last.op = "add"
    /\ last.item \in Live(old.data)
    /\ ~last.grew
    /\ last.ret = FALSE
    /\ loaded > size
    /\ status = "ok"

\* C4: remove(x) on a set that contains x returns true, overwrites exactly the
\* bucket holding x with Deleted, decrements size by one, leaves loaded and the
\* capacity alone, and a contains(x) right after it returns false.
C4_RemovePresent ==
    (last.op = "remove" /\ last.item \in Live(old.data)) =>
        /\ status = "ok"
        /\ last.ret = TRUE
        /\ Len(data) = Len(old.data)
        /\ \E i \in DOMAIN data :
              /\ old.data[i] = NonEmpty(last.item)
              /\ data = [old.data EXCEPT ![i] = Deleted]
        /\ size = old.size - 1
        /\ loaded = old.loaded
        /\ contains(cur, last.item) = [status |-> "ok", ret |-> FALSE]

\* C5: remove(x) on a set that does not contain x returns false and leaves the
\* table, size, loaded and the capacity as they were.
C5_RemoveAbsent ==
    (last.op = "remove" /\ last.item \notin Live(old.data)) =>
        /\ status = "ok"
        /\ last.ret = FALSE
        /\ data = old.data
        /\ size = old.size
        /\ loaded = old.loaded

\* C6: in every reachable state where x is present, remove(x) and then add(x)
\* both return true, and afterwards contains(x) is true and size() is what it
\* was before the remove.
C6_RemoveThenAdd ==
    status = "ok" =>
        \A x \in Live(data) :
            LET r == remove(cur, x)
                a == add(StateOf(r), x)
            IN  /\ Returned(r) /\ r.ret = TRUE
                /\ Returned(a) /\ a.ret = TRUE
                /\ contains(StateOf(a), x) = [status |-> "ok", ret |-> TRUE]
                /\ a.size = size

\* C7: size() is the number of adds that returned true minus the number of
\* removes that returned true since construction or the last clear.
C7_SizeIsAddsMinusRemoves == size = net

\* a remove that returned true at capacity 14 or more, with a value left
C7_Witness ==
    /\ last.op = "remove"
    /\ last.ret = TRUE
    /\ status = "ok"
    /\ Len(data) >= 14
    /\ size = 1
    /\ loaded > 2

\* C8: resizing is transparent: a resize leaves the set of live values as it
\* was, so after inserting N distinct values (S, with nothing removed) every
\* call has returned, all N are found by contains and size() = N.
C8_ResizeTransparent ==
    /\ status = "ok"
    /\ LET g == resize(cur, Len(data) * 2 + 2)
       IN  Returned(g) /\ Live(g.data) = Live(data)
    /\ size = Cardinality(S)
    /\ \A x \in S : contains(cur, x) = [status |-> "ok", ret |-> TRUE]

\* C9: for distinct x and y, contains(y) returns the same result right before
\* and right after remove(x).
C9_RemoveHidesNothing ==
    status = "ok" =>
        \A x \in DOMAIN hash : \A y \in DOMAIN hash \ {x} :
            LET before == contains(cur, y)
                r == remove(cur, x)
                after == contains(StateOf(r), y)
            IN  /\ Returned(before)
                /\ Returned(r)
                /\ Returned(after)
                /\ after.ret = before.ret

\* C10: the state after clear() is the state of new(): is_empty() is true,
\* size() is 0, contains(x) is false for every x, and the next operation
\* returns what it returns on a fresh set.
C10_ClearIsNew ==
    last.op = "clear" =>
        /\ cur = new
        /\ is_empty(cur)
        /\ size = 0
        /\ \A x \in DOMAIN hash :
              /\ contains(cur, x) = [status |-> "ok", ret |-> FALSE]
              /\ add(cur, x) = add(new, x)
              /\ remove(cur, x) = remove(new, x)

\* a clear of a table of capacity 14 or more that held live values and tombstones
C10_Witness ==
    /\ last.op = "clear"
    /\ Len(old.data) >= 14
    /\ old.size > 0
    /\ old.loaded > old.size

\* C11 (as stated): no public operation takes the set from capacity c to a
\* capacity smaller than c.
C11_CapacityNeverShrinks == Len(data) >= Len(old.data)

\* C11 (amended): add, remove and contains never take the set to a smaller
\* capacity; clear takes the capacity back to 0.
C11_CapacityShrinksOnlyByClear ==
    /\ last.op # "clear" => Len(data) >= Len(old.data)
    /\ last.op = "clear" => Len(data) = 0

\* a remove that emptied a set of capacity 14 or more, and left the capacity alone
C11_Witness ==
    /\ last.op = "remove"
    /\ last.ret = TRUE
    /\ size = 0
    /\ Len(old.data) >= 14
    /\ Len(data) = Len(old.data)

\* C12: size <= loaded <= capacity in every reachable state and in every state
\* a resize passes through while it replays the old table.
C12_SizeLoadedCapacity ==
    \A st \in Passed : st.size <= st.loaded /\ st.loaded <= Len(st.data)

\* a growth that replayed two live values, ending with tombstones dropped
C12_Witness ==
    /\ last.op = "add"
    /\ last.grew
    /\ Cardinality(Live(old.data)) = 2
    /\ old.loaded > old.size
    /\ Cardinality(Passed) >= 3

\* C13: in every reachable state loaded <= capacity * 0.5, and a table of
\* capacity > 0 holds at least one Empty bucket.
C13_LoadFactor ==
    /\ loaded * MAX_LOAD_FACTOR_INV <= Len(data)
    /\ Len(data) > 0 => \E i \in DOMAIN data : data[i] = Empty

\* an add that filled the table to exactly half, tombstones included
C13_Witness ==
    /\ last.op = "add"
    /\ last.ret = TRUE
    /\ ~last.grew
    /\ loaded * MAX_LOAD_FACTOR_INV = Len(data)
    /\ loaded > size
    /\ Len(data) >= 14

\* C14: every value held in a NonEmpty bucket is reached by its probe sequence
\* before any Empty bucket; tombstones and other values on the way do not stop
\* the probe.
C14_LiveValuesReachable ==
    \A v \in Live(data) :
        LET index == index_of(data, v)
        IN  index # NoIndex /\ data[index + 1] = NonEmpty(v)

\* a live value whose first probe bucket is a tombstone and whose second holds
\* another value
C14_Witness ==
    /\ Len(data) >= 6
    /\ \E v \in Live(data) : \E w \in Live(data) \ {v} :
          /\ Probed(data, v, 1) = Deleted
          /\ Probed(data, v, 2) = NonEmpty(w)

\* C15: no two NonEmpty buckets hold equal values.
C15_NoDuplicates ==
    \A i \in DOMAIN data : \A j \in DOMAIN data :
        (i # j /\ data[i].tag = "NonEmpty" /\ data[j].tag = "NonEmpty")
            => data[i].item # data[j].item

\* a value added again after its removal, next to its own tombstone and to
\* another live value
C15_Witness ==
    /\ last.op = "add"
    /\ last.ret = TRUE
    /\ ~last.grew
    /\ size = 2
    /\ last.item \notin Live(old.data)
    /\ old.loaded > old.size

\* C16: while the table is not reallocated (no growth, no clear) an Empty
\* bucket stays Empty or becomes NonEmpty, a NonEmpty bucket keeps its value
\* or becomes Deleted, and a Deleted bucket stays Deleted.
C16_BucketLifeCycle ==
    (last.op # "clear" /\ ~last.grew) =>
        /\ Len(data) = Len(old.data)
        /\ \A i \in DOMAIN data :
              /\ old.data[i] = Empty => data[i].tag \in {"Empty", "NonEmpty"}
              /\ old.data[i].tag = "NonEmpty" => data[i] \in {old.data[i], Deleted}
              /\ old.data[i] = Deleted => data[i] = Deleted

\* an add that stepped over the tombstone of the value it inserts
C16_Witness ==
    /\ last.op = "add"
    /\ last.ret = TRUE
    /\ ~last.grew
    /\ Probed(old.data, last.item, 1) = Deleted
    /\ Probed(data, last.item, 1) = Deleted

\* C17: with overflow aborting, no call aborts in a probe: hash + k * k stays
\* in range for every hash value and every step k reached, and no probe takes
\* a remainder modulo a capacity of 0 (the capacity computation, which the
\* bound on growth keeps in range here, is the only step that could abort).
C17_OnlyGrowthAborts ==
    /\ status = "ok"
    /\ size > 0 => Len(data) > 0
    /\ must_grow(cur) \/ Len(data) > 0

\* C18: for the chained set, size() is the number of distinct values stored in
\* the buckets and is_empty() is true exactly when none is stored (so adding
\* values and removing them all leaves size() = 0).
C18_ChainedSizeIsCount ==
    /\ size = Cardinality(Stored(data))
    /\ is_empty2(cur2) = (Stored(data) = {})

\* C19: the stack is last-in-first-out: a pop returns the most recently pushed
\* value not yet popped, and None exactly when every pushed value has been
\* popped, whatever growths of the slice (length * 3 / 2 + 1) lie in between.
C19_StackIsLifo ==
    last.op = "pop" =>
        /\ (last.ret = None) = (old.S = <<>>)
        /\ old.S # <<>> => last.ret = Some(old.S[Len(old.S)])

\* a pop of a value pushed before two later growths of the slice (1 -> 2 -> 4),
\* with other values pushed and popped above it
C19_Witness ==
    /\ last.op = "pop"
    /\ Len(old.S) = 1
    /\ Len(data) >= 4
    /\ last.ret = Some(1)
    /\ \E i \in 2 .. Len(data) : data[i] = 2

\* C20: size() is the number of pushes minus the number of pops that returned
\* a value, length never exceeds the length of the slice, is_empty() is
\* (size() = 0), and peek() is what the next pop returns (None when empty) and
\* changes nothing.
C20_StackCounts ==
    /\ stack_size(stk_cur) = net
    /\ stk_cur.length <= Len(data)
    /\ stack_is_empty(stk_cur) = (stack_size(stk_cur) = 0)
    /\ peek(stk_cur) = pop(stk_cur).ret
    /\ last.op = "peek" =>
          /\ last.ret = pop(stk_cur).ret
          /\ data = old.data /\ size = old.size

\* a peek at a stack of three values after a pop, answering the value below
\* the popped one
C20_Witness ==
    /\ last.op = "peek"
    /\ size = 3
    /\ net = 3
    /\ Len(data) = 4
    /\ data[4] # Default
    /\ last.ret = Some(data[3])
    /\ data[3] # data[4]

\* C21: bfs returns on every graph, cyclic or not; it returns None exactly
\* when the destination cannot be reached from the source, and otherwise a
\* path from the source to the destination along edges of the graph with the
\* fewest edges any such path has.
C21_BfsShortestPath ==
    /\ status = "ok"
    /\ last.op = "bfs" =>
          LET s == last.item[1]
              d == last.item[2]
          IN  /\ (last.ret = None) = ~Reachable(data, s, d)
              /\ last.ret # None =>
                    /\ IsPath(data, last.ret[1], s, d)
                    /\ Len(last.ret[1]) - 1 = Distance(data, s, d)

\* bfs on a graph with the cycle 0 -> 1 -> 0, where the destination 2 has a
\* path of two edges through node 1, which is visited first, and one of one
C21_Witness ==
    /\ last.op = "bfs"
    /\ last.item = <<0, 2>>
    /\ data[1] = {1, 2}
    /\ data[2] = {0, 2}
    /\ last.ret = Some(<<0, 2>>)

\* C22: dfs returns on every graph, cyclic or not, also where a node is
\* pushed several times and its parent entry overwritten; it returns None
\* exactly when the destination cannot be reached from the source, and
\* otherwise a sequence from the source to the destination that repeats no
\* node and whose consecutive pairs are edges of the graph.
C22_DfsSimplePath ==
    /\ status = "ok"
    /\ last.op = "dfs" =>
          LET s == last.item[1]
              d == last.item[2]
          IN  /\ (last.ret = None) = ~Reachable(data, s, d)
              /\ last.ret # None =>
                    LET path == last.ret[1]
                    IN  /\ IsPath(data, path, s, d)
                        /\ \A i, j \in DOMAIN path : path[i] = path[j] => i = j

\* dfs on a cyclic graph where node 2 is pushed from node 0 and again from
\* node 1, which overwrites its parent: the answer runs through node 1
C22_Witness ==
    /\ last.op = "dfs"
    /\ last.item = <<0, 2>>
    /\ data[1] = {1, 2}
    /\ 2 \in data[2]
    /\ 0 \in data[3]
    /\ last.ret = Some(<<0, 1, 2>>)

\* C23: on a graph built with add_node and add_edge calls that all returned
\* Ok, is_tree returns true exactly when the graph is non-empty, has n - 1
\* edges and every node can be reached from the root, trees whose nodes have
\* several children included.
C23_IsTreeExact ==
    (last.op = "is_tree" /\ net = 0) =>
        /\ status = "ok"
        /\ last.ret = Tree(data)

\* C24: for every n, both sieves return what trial_division returns, the
\* number of primes strictly less than n (0 for n <= 2).
C24_SievesCountPrimes ==
    last.op \in {"trial_division", "sieve_of_eratosthenes_odds",
                 "sieve_of_eratosthenes_naive"} =>
        /\ last.ret = PrimesBelow(last.item)
        /\ last.ret = trial_division(last.item)
        /\ last.item <= 2 => last.ret = 0

\* the odds sieve called with 50, the first argument for which the sieve of 7
\* has something to mark (49)
C24_Witness ==
    /\ last.op = "sieve_of_eratosthenes_odds"
    /\ last.item = 50
    /\ last.ret = 15

\* C25: an add call grows the table exactly when loaded * 2 >= capacity at the
\* time of the call (always at capacity 0), tombstones counting in loaded;
\* the test precedes the probe; a growth sets the capacity to 2 * old + 2,
\* which is larger.
C25_GrowthExactlyOnLoad ==
    last.op = "add" =>
        LET due == old.loaded * 2 >= Len(old.data)
        IN  /\ last.grew = due
            /\ Len(old.data) = 0 => due
            /\ due => Len(data) = 2 * Len(old.data) + 2 /\ Len(data) > Len(old.data)
            /\ ~due => Len(data) = Len(old.data)

\* an add that grew a table of capacity 14 holding no live value at all, seven
\* tombstones having filled the load
C25_Witness ==
    /\ last.op = "add"
    /\ last.grew
    /\ Len(old.data) = 14
    /\ old.size = 0
    /\ Buckets(old.data, "Deleted") = 7
    /\ Len(data) = 30

\* C26: right after an add that grew the table there is no tombstone in it,
\* and loaded = size = the number of values live before the call, plus one if
\* the added value was new.
C26_ResizeDropsTombstones ==
    (last.op = "add" /\ last.grew) =>
        /\ Buckets(data, "Deleted") = 0
        /\ loaded = size
        /\ size = Cardinality(Live(old.data))
                    + (IF last.item \in Live(old.data) THEN 0 ELSE 1)

\* a growth of a table with a live value and tombstones, by an add of a value
\* that was already live
C26_Witness ==
    /\ last.op = "add"
    /\ last.grew
    /\ last.ret = FALSE
    /\ Buckets(old.data, "Deleted") >= 2
    /\ Cardinality(Live(old.data)) = 2
    /\ size = 2

\* C27: between calls, size is the number of NonEmpty buckets, loaded the
\* number of NonEmpty plus Deleted buckets, and the capacity the length of the
\* table.
C27_CountersMatchBuckets ==
    /\ size = Buckets(data, "NonEmpty")
    /\ loaded = Buckets(data, "NonEmpty") + Buckets(data, "Deleted")
    /\ Buckets(data, "NonEmpty") + Buckets(data, "Deleted") + Buckets(data, "Empty")
          = Len(data)

\* a table with live values, tombstones and empty buckets after a remove
C27_Witness ==
    /\ last.op = "remove"
    /\ last.ret = TRUE
    /\ size = 1
    /\ loaded = 5
    /\ Len(data) = 14

\* C28: the add calls resize makes while it replays the old table never
\* resize: an add reallocates at most once, and loaded stays strictly below
\* half the new capacity all through the replay.
C28_ReplayNeverResizes ==
    (last.op = "add" /\ last.grew) =>
        LET new_capacity == Len(old.data) * 2 + 2
        IN  /\ Len(data) = new_capacity
            /\ \A st \in ResizeStates(old, new_capacity) :
                  /\ Len(st.data) = new_capacity
                  /\ st.loaded * 2 < new_capacity

\* a growth from capacity 2 to 6 that replayed two live values, the most the
\* new table has to take relative to its capacity
C28_Witness ==
    /\ last.op = "add"
    /\ last.grew
    /\ Len(old.data) = 2
    /\ \E st \in ResizeStates(old, 6) : st.loaded = 1

\* C29: is_tree never aborts, whatever add_node and add_edge calls (failed
\* ones included) built the graph: every unwrap in to_head and is_connected
\* finds an edge list and both loops end.
C29_IsTreeNeverAborts == status = "ok"

\* C30: add_edge returns Err exactly when source or target is not a node, and
\* then leaves the graph as it was; on Ok it has added one entry source ->
\* target to edges and one entry target -> source to reversed_edges.
C30_AddEdgeAllOrNothing ==
    last.op = "add_edge" =>
        LET source == last.item[1]
            target == last.item[2]
            valid == source < old.data.nodes /\ target < old.data.nodes
        IN  /\ (last.ret = "Err") = ~valid
            /\ last.ret = "Err" => data = old.data
            /\ last.ret = "Ok" =>
                  /\ data.nodes = old.data.nodes
                  /\ data.edges =
                        [old.data.edges EXCEPT ![source + 1] = Append(@, target)]
                  /\ data.reversed_edges =
                        [old.data.reversed_edges EXCEPT ![target + 1] = Append(@, source)]
====
